---------------------------- MODULE Spec2Model ----------------------------
(***************************************************************************)
(* Model of the notifox-go client: the request executor (SendAlert,        *)
(* CalculateParts, doRequest in client.go) and the error classifier        *)
(* (parseError in errors.go).                                              *)
(*                                                                         *)
(* One call is in progress at a time.  A call is cut at its suspension     *)
(* points: the head of the retry loop ("loop"), the wait for the transport *)
(* in httpClient.Do ("inflight") and the select of the backoff             *)
(* ("backoff").  The server, the transport and the caller's context are    *)
(* the environment: each outcome of an exchange and the instant at which   *)
(* the context is cancelled are chosen nondeterministically.               *)
(***************************************************************************)
EXTENDS Integers, Sequences, FiniteSets, TLC

VARIABLES
    newCall,      \* the constructor call: its name, the value of
                  \* NOTIFOX_API_KEY, its options and the error it returned
    client,       \* the *Client: nil, or apiKey, baseURL, timeout, maxRetries,
                  \* httpClient, UserAgent
    op,           \* the operation in progress: "none", "SendAlert", "CalculateParts"
    req,          \* the argument of the call
    ctxDone,      \* the caller's context has been cancelled
    cancelledIn,  \* history: where the call was when the context was cancelled
    earlier,      \* history: a call on this client returned before this one
    pc,           \* position of the call
    attempt,      \* the loop variable of SendAlert
    err,          \* the err variable of SendAlert
    sent,         \* history: the requests handed to httpClient.Do, in order
    outcomes,     \* history: what the transport answered to each of them
    errs,         \* history: the error each doRequest call returned
    waits,        \* history: the backoffs (ms) the call has started
    retResp,      \* the response returned to the caller
    retErr        \* the error returned to the caller

vars == <<newCall, client, op, req, ctxDone, cancelledIn, earlier, pc, attempt,
          err, sent, outcomes, errs, waits, retResp, retErr>>

-----------------------------------------------------------------------------
(* Bounds *)

\* largest value given to WithMaxRetries; the option takes any int, and the
\* clients of the model have maxRetries in -1..MaxRetries
MaxRetries == 2

-----------------------------------------------------------------------------
(* Constants of the package *)

DefaultBaseURL == "https://api.notifox.com"

DefaultUserAgent == "notifox-go/v0.1.6"

\* 30 * time.Second, in seconds
DefaultTimeout == 30

DefaultMaxRetries == 3

SMS == "sms"

Email == "email"

MethodPost == "POST"

StatusUnauthorized == 401

StatusPaymentRequired == 402

StatusForbidden == 403

StatusTooManyRequests == 429

-----------------------------------------------------------------------------
(* Values *)

Nil == [nil |-> TRUE]

\* a nil error
NoErr == [kind |-> "nil", status |-> 0, text |-> ""]

\* fmt.Errorf(...) of the validation of the arguments
ValidationErr(msg) == [kind |-> "validation", status |-> 0, text |-> msg]

\* ctx.Err() of a cancelled context
CtxErr == [kind |-> "context", status |-> 0, text |-> "context canceled"]

\* &NotifoxConnectionError{Message: msg, Err: cause}
ConnectionError(msg) == [kind |-> "Connection", status |-> 0, text |-> msg]

\* the decode failure reported as a connection failure
APIErrorAsConnection(statusCode, responseText) ==
    ConnectionError("failed to unmarshal response")

\* &NotifoxAPIError{StatusCode, ResponseText} built by doRequest itself
APIError(statusCode, responseText) ==
    [kind |-> "API", status |-> statusCode, text |-> responseText]

\* Response bodies.  A body is its raw text together with what encoding/json
\* makes of it: whether it is a JSON object, the value of its "error" member
\* ("" when absent) and the value of its "message_id" member.
OkBody ==
    [raw |-> "{\"message_id\":\"m1\",\"parts\":1}", object |-> TRUE,
     error |-> "", id |-> "m1"]

EnvBody ==
    [raw |-> "{\"error\":\"audience cannot be empty\"}", object |-> TRUE,
     error |-> "audience cannot be empty", id |-> ""]

EnvEmptyBody ==
    [raw |-> "{\"error\":\"\"}", object |-> TRUE, error |-> "", id |-> ""]

PlainBody ==
    [raw |-> "Unauthorized", object |-> FALSE, error |-> "", id |-> ""]

NoBody == [raw |-> "", object |-> FALSE, error |-> "", id |-> ""]

Response(status, body) == [type |-> "response", status |-> status, body |-> body]

\* httpClient.Do returned an error: no response at all
TransportFail == [type |-> "transportFail", status |-> 0, body |-> NoBody]

\* a response arrived but io.ReadAll of its body failed
ReadFail == [type |-> "readFail", status |-> 200, body |-> NoBody]

\* what the transport can answer to one request
Outcomes ==
    { Response(200, OkBody), Response(200, PlainBody),
      Response(400, EnvBody), Response(400, EnvEmptyBody),
      Response(404, PlainBody),
      Response(401, PlainBody), Response(401, EnvBody),
      Response(402, EnvBody), Response(403, EnvBody),
      Response(429, EnvBody),
      Response(500, EnvBody), Response(503, PlainBody),
      TransportFail, ReadFail }

BaseURLs == { DefaultBaseURL, "http://stub/alert", ":bad" }

APIKeys == { "key-1", "key-2" }

Clients ==
    [apiKey : APIKeys, baseURL : BaseURLs, timeout : {DefaultTimeout},
     maxRetries : (-1)..MaxRetries,
     httpClient : {[Timeout |-> DefaultTimeout]},
     UserAgent : {DefaultUserAgent}]

\* no constructor call is part of the behaviour
NoNewCall == [ctor |-> "none", env |-> "", opts |-> <<>>, err |-> NoErr]

AlertRequests ==
    [Audience : {"", "ops"}, Alert : {"", "disk full"},
     Channel : {"", SMS, Email, "push"}]

-----------------------------------------------------------------------------
(* errors.go *)

\* 403 left to the default case
parseErrorOnly401(statusCode, responseText) ==
    CASE statusCode = StatusUnauthorized ->
           [kind |-> "Authentication", status |-> statusCode, text |-> responseText]
      [] statusCode = StatusPaymentRequired ->
           [kind |-> "InsufficientBalance", status |-> 0, text |-> responseText]
      [] statusCode = StatusTooManyRequests ->
           [kind |-> "RateLimit", status |-> 0, text |-> responseText]
      [] OTHER ->
           [kind |-> "API", status |-> statusCode, text |-> responseText]

parseError(statusCode, responseText) ==
    CASE statusCode \in {StatusUnauthorized, StatusForbidden} ->
           [kind |-> "Authentication", status |-> statusCode, text |-> responseText]
      [] statusCode = StatusPaymentRequired ->
           [kind |-> "InsufficientBalance", status |-> 0, text |-> responseText]
      [] statusCode = StatusTooManyRequests ->
           [kind |-> "RateLimit", status |-> 0, text |-> responseText]
      [] OTHER ->
           [kind |-> "API", status |-> statusCode, text |-> responseText]


-----------------------------------------------------------------------------
(* client.go: doRequest *)

\* json.Marshal of an AlertRequest: the three members are always written
\* (types.go declares no omitempty)
MarshalAlertRequest(r) ==
    [audience |-> r.Audience, alert |-> r.Alert, channel |-> r.Channel]

\* json.Marshal of PartsRequest{Alert: alert}
MarshalPartsRequest(alert) == [alert |-> alert]

\* http.NewRequestWithContext parses the URL: a URL that starts with a colon
\* has no protocol scheme and is rejected
NewRequestOK(url) == url \notin { ":bad/alert", ":bad/alert/parts" }

\* the credential without its scheme
AuthHeaderBare(apiKey) == apiKey

\* the value of the Authorization header
AuthHeader(apiKey) == "Bearer " \o apiKey

\* the parts endpoint recognised under the default base URL only
NeedsAuthDefaultBase(c, url) == url # DefaultBaseURL \o "/alert/parts"

\* the Authorization header is set unless the URL is the parts endpoint
NeedsAuth(c, url) == url # c.baseURL \o "/alert/parts"

Headers(c, url) ==
    IF NeedsAuth(c, url)
    THEN [ContentType |-> "application/json", UserAgent |-> c.UserAgent,
          Authorization |-> AuthHeader(c.apiKey)]
    ELSE [ContentType |-> "application/json", UserAgent |-> c.UserAgent]

\* the request doRequest hands to httpClient.Do
BuildRequest(c, method, url, jsonData) ==
    [method |-> method, url |-> url, headers |-> Headers(c, url),
     body |-> jsonData]

\* json.Unmarshal(respBody, result) into an AlertResponse or a PartsResponse:
\* succeeds on a JSON object, whose unknown members are ignored
UnmarshalResult(body) ==
    IF body.object
    THEN [ok |-> TRUE, val |-> [nil |-> FALSE, MessageID |-> body.id]]
    ELSE [ok |-> FALSE, val |-> Nil]

\* json.Unmarshal(respBody, &errorResp)
UnmarshalErrorResponse(body) ==
    IF body.object
    THEN [ok |-> TRUE, Error |-> body.error]
    ELSE [ok |-> FALSE, Error |-> ""]

\* the envelope tried for every status, 401 included
ResponseTextAlwaysEnvelope(status, body) ==
    LET e == UnmarshalErrorResponse(body)
    IN  IF e.ok /\ e.Error # "" THEN e.Error ELSE body.raw

\* the text handed to parseError for a non-2xx response
ResponseText(status, body) ==
    IF status = StatusUnauthorized
    THEN body.raw
    ELSE LET e == UnmarshalErrorResponse(body)
         IN  IF e.ok /\ e.Error # "" THEN e.Error ELSE body.raw

\* doRequest from httpClient.Do on: what it returns for an outcome
HandleOutcome(o) ==
    CASE o.type = "transportFail" ->
           [result |-> Nil, err |-> ConnectionError("request failed")]
      [] o.type = "readFail" ->
           [result |-> Nil, err |-> ConnectionError("failed to read response")]
      [] OTHER ->
           IF o.status >= 200 /\ o.status < 300
           THEN LET u == UnmarshalResult(o.body)
                IN  IF u.ok
                    THEN [result |-> u.val, err |-> NoErr]
                    ELSE [result |-> Nil,
                          err |-> APIError(o.status, o.body.raw)]
           ELSE [result |-> Nil,
                 err |-> parseError(o.status, ResponseText(o.status, o.body))]

-----------------------------------------------------------------------------
(* client.go: SendAlert and CalculateParts *)

\* the validation without the check of the message
ValidateNoAlertCheck(r) ==
    IF r.Audience = "" THEN ValidationErr("audience cannot be empty")
    ELSE IF r.Channel # "" /\ r.Channel # SMS /\ r.Channel # Email
         THEN ValidationErr("channel must be either 'sms' or 'email'")
    ELSE NoErr

\* the validation of SendAlert's argument
ValidateAlertRequest(r) ==
    IF r.Audience = "" THEN ValidationErr("audience cannot be empty")
    ELSE IF r.Alert = "" THEN ValidationErr("alert message cannot be empty")
    ELSE IF r.Channel # "" /\ r.Channel # SMS /\ r.Channel # Email
         THEN ValidationErr("channel must be either 'sms' or 'email'")
    ELSE NoErr

\* the validation of CalculateParts' argument
ValidateParts(alert) ==
    IF alert = "" THEN ValidationErr("alert message cannot be empty") ELSE NoErr

AlertURL(c) == c.baseURL \o "/alert"

PartsURL(c) == c.baseURL \o "/alert/parts"

\* one turn short
LoopCondStrict(a, maxRetries) == a < maxRetries

\* one turn more
LoopCondExtra(a, maxRetries) == a <= maxRetries + 1

\* the condition of the for loop
LoopCond(a, maxRetries) == a <= maxRetries

\* rate limiting taken for transient
IsTerminalNoRateLimit(e) ==
    \/ e.kind = "Authentication"
    \/ e.kind = "API" /\ e.status >= 400 /\ e.status < 500

\* the range of client errors opened at 400
IsTerminalAbove400(e) ==
    \/ e.kind = "Authentication"
    \/ e.kind = "RateLimit"
    \/ e.kind = "API" /\ e.status > 400 /\ e.status < 500

\* connection failures taken for final
IsTerminalConnection(e) ==
    \/ e.kind = "Authentication"
    \/ e.kind = "RateLimit"
    \/ e.kind = "Connection"
    \/ e.kind = "API" /\ e.status >= 400 /\ e.status < 500

\* the errors after which SendAlert returns at once
IsTerminal(e) ==
    \/ e.kind = "Authentication"
    \/ e.kind = "RateLimit"
    \/ e.kind = "API" /\ e.status >= 400 /\ e.status < 500

\* "Don't retry on the last attempt"
ShouldBackoff(a, maxRetries) == a < maxRetries

\* the attempt index taken as one-based
BackoffFromZero(a) == a * 100

\* time.Duration(attempt+1) * 100 * time.Millisecond, in ms
Backoff(a) == (a + 1) * 100

\* the first error kept
AssignErrFirst(old, new) == IF old = NoErr THEN new ELSE old

\* result, err = c.doRequest(...): err holds what the last call returned
AssignErr(old, new) == new

\* the error of the failed attempt returned on cancellation
CtxDoneErrLast(e) == e

\* what the ctx.Done() case of the select returns
CtxDoneErr(e) == CtxErr

\* return from the call in progress
Return(resp, e) ==
    /\ pc' = "done"
    /\ retResp' = resp
    /\ retErr' = e

\* SendAlert after a doRequest call that returned the error e (non-nil)
AfterFailure(e) ==
    /\ errs' = Append(errs, e)
    /\ err' = AssignErr(err, e)
    /\ IF IsTerminal(e)
       THEN /\ Return(Nil, e)
            /\ UNCHANGED <<attempt, waits>>
       ELSE IF ShouldBackoff(attempt, client.maxRetries)
       THEN /\ pc' = "backoff"
            /\ waits' = Append(waits, Backoff(attempt))
            /\ UNCHANGED <<attempt, retResp, retErr>>
       ELSE /\ pc' = "loop"
            /\ attempt' = attempt + 1
            /\ UNCHANGED <<waits, retResp, retErr>>

TypeOK ==
    /\ client \in Clients
    /\ op \in {"none", "SendAlert", "CalculateParts"}
    /\ req \in AlertRequests
    /\ ctxDone \in BOOLEAN
    /\ cancelledIn \in {"never", "before", "loop", "inflight", "backoff"}
    /\ earlier \in BOOLEAN
    /\ pc \in {"idle", "loop", "inflight", "backoff", "done"}
    /\ attempt \in 0..(MaxRetries + 2)
    /\ outcomes \in Seq(Outcomes)
    /\ waits \in Seq(Nat)

Init ==
    /\ newCall = NoNewCall
    /\ client \in Clients
    /\ op = "none"
    /\ req = [Audience |-> "", Alert |-> "", Channel |-> ""]
    /\ ctxDone = FALSE
    /\ cancelledIn = "never"
    /\ earlier = FALSE
    /\ pc = "idle"
    /\ attempt = 0
    /\ err = NoErr
    /\ sent = <<>>
    /\ outcomes = <<>>
    /\ errs = <<>>
    /\ waits = <<>>
    /\ retResp = Nil
    /\ retErr = NoErr

\* a call begins: everything that belongs to a call is fresh
NewCall(o, r, cancelled) ==
    /\ pc \in {"idle", "done"}
    /\ op' = o
    /\ req' = r
    /\ ctxDone' = cancelled
    /\ cancelledIn' = IF cancelled THEN "before" ELSE "never"
    /\ earlier' = (pc = "done")
    /\ UNCHANGED <<newCall, client>>

\* SendAlert up to the head of the loop
SendAlert(r, cancelled) ==
    /\ NewCall("SendAlert", r, cancelled)
    /\ attempt' = 0
    /\ err' = NoErr
    /\ sent' = <<>>
    /\ outcomes' = <<>>
    /\ errs' = <<>>
    /\ waits' = <<>>
    /\ LET v == ValidateAlertRequest(r)
       IN  IF v # NoErr
           THEN Return(Nil, v)
           ELSE /\ pc' = "loop"
                /\ retResp' = Nil
                /\ retErr' = NoErr

\* the head of the loop reusing the reader of the first attempt: consumed by
\* it, the body of a retry is empty
LoopHeadBodyConsumed ==
    /\ op = "SendAlert"
    /\ pc = "loop"
    /\ UNCHANGED <<newCall, client, op, req, ctxDone, cancelledIn, earlier,
                   outcomes>>
    /\ IF ~LoopCond(attempt, client.maxRetries)
       THEN /\ Return(Nil, err)
            /\ UNCHANGED <<attempt, err, sent, errs, waits>>
       ELSE IF NewRequestOK(AlertURL(client))
       THEN /\ sent' = Append(sent, BuildRequest(client, MethodPost,
                                  AlertURL(client),
                                  IF attempt = 0
                                  THEN MarshalAlertRequest(req)
                                  ELSE [audience |-> "", alert |-> "",
                                        channel |-> ""]))
            /\ pc' = "inflight"
            /\ UNCHANGED <<attempt, err, errs, waits, retResp, retErr>>
       ELSE /\ AfterFailure(ConnectionError("failed to create request"))
            /\ UNCHANGED sent

\* the head of a loop that counts its attempts at the end of the body and
\* goes back to the head, without counting, when the request cannot be
\* created
LoopHeadUncountedFailure ==
    /\ op = "SendAlert"
    /\ pc = "loop"
    /\ UNCHANGED <<newCall, client, op, req, ctxDone, cancelledIn, earlier,
                   outcomes>>
    /\ IF ~LoopCond(attempt, client.maxRetries)
       THEN /\ Return(Nil, err)
            /\ UNCHANGED <<attempt, err, sent, errs, waits>>
       ELSE IF NewRequestOK(AlertURL(client))
       THEN /\ sent' = Append(sent, BuildRequest(client, MethodPost,
                                  AlertURL(client), MarshalAlertRequest(req)))
            /\ pc' = "inflight"
            /\ UNCHANGED <<attempt, err, errs, waits, retResp, retErr>>
       ELSE UNCHANGED <<pc, attempt, err, sent, errs, waits, retResp, retErr>>

\* the head of the loop: leave it, or start the doRequest call of this attempt
LoopHead ==
    /\ op = "SendAlert"
    /\ pc = "loop"
    /\ UNCHANGED <<newCall, client, op, req, ctxDone, cancelledIn, earlier, outcomes>>
    /\ IF ~LoopCond(attempt, client.maxRetries)
       THEN /\ Return(Nil, err)
            /\ UNCHANGED <<attempt, err, sent, errs, waits>>
       ELSE IF NewRequestOK(AlertURL(client))
       THEN /\ sent' = Append(sent, BuildRequest(client, MethodPost,
                                  AlertURL(client), MarshalAlertRequest(req)))
            /\ pc' = "inflight"
            /\ UNCHANGED <<attempt, err, errs, waits, retResp, retErr>>
       ELSE /\ AfterFailure(ConnectionError("failed to create request"))
            /\ UNCHANGED sent

\* httpClient.Do returns in SendAlert: doRequest classifies, SendAlert decides.
\* The transport is pluggable, so under a cancelled context it may still
\* answer anything.
SendAlertResponse(o) ==
    /\ op = "SendAlert"
    /\ pc = "inflight"
    /\ outcomes' = Append(outcomes, o)
    /\ UNCHANGED <<newCall, client, op, req, ctxDone, cancelledIn, earlier, sent>>
    /\ LET d == HandleOutcome(o)
       IN  IF d.err = NoErr
           THEN /\ errs' = Append(errs, NoErr)
                /\ err' = AssignErr(err, NoErr)
                /\ Return(d.result, NoErr)
                /\ UNCHANGED <<attempt, waits>>
           ELSE AfterFailure(d.err)

\* the backoff slept out with time.Sleep, whatever the context
BackoffElapsedIgnoringCtx ==
    /\ op = "SendAlert"
    /\ pc = "backoff"
    /\ pc' = "loop"
    /\ attempt' = attempt + 1
    /\ UNCHANGED <<newCall, client, op, req, ctxDone, cancelledIn, earlier, err,
                   sent, outcomes, errs, waits, retResp, retErr>>

\* the timer of the backoff fires before the context is cancelled.  A select
\* blocked on both channels is woken by the first of them to become ready,
\* and the timer, created on entry for at least 100 ms, is not ready on entry:
\* with a cancelled context only the ctx.Done() case can be taken.
BackoffElapsed ==
    /\ op = "SendAlert"
    /\ pc = "backoff"
    /\ ~ctxDone
    /\ pc' = "loop"
    /\ attempt' = attempt + 1
    /\ UNCHANGED <<newCall, client, op, req, ctxDone, cancelledIn, earlier, err, sent, outcomes,
                   errs, waits, retResp, retErr>>

\* the select of the backoff takes its ctx.Done() case
BackoffCancelled ==
    /\ op = "SendAlert"
    /\ pc = "backoff"
    /\ ctxDone
    /\ Return(Nil, CtxDoneErr(err))
    /\ UNCHANGED <<newCall, client, op, req, ctxDone, cancelledIn, earlier, attempt, err, sent,
                   outcomes, errs, waits>>

\* CalculateParts getting its single attempt by switching the retries of the
\* shared client off
CalculatePartsDisablingRetries(alert, cancelled) ==
    /\ pc \in {"idle", "done"}
    /\ op' = "CalculateParts"
    /\ req' = [Audience |-> "", Alert |-> alert, Channel |-> ""]
    /\ ctxDone' = cancelled
    /\ cancelledIn' = IF cancelled THEN "before" ELSE "never"
    /\ earlier' = (pc = "done")
    /\ client' = [client EXCEPT !.maxRetries = 0]
    /\ attempt' = 0
    /\ err' = NoErr
    /\ outcomes' = <<>>
    /\ errs' = <<>>
    /\ waits' = <<>>
    /\ UNCHANGED newCall
    /\ IF ValidateParts(alert) # NoErr
       THEN /\ Return(Nil, ValidateParts(alert))
            /\ sent' = <<>>
       ELSE /\ sent' = <<BuildRequest(client, MethodPost, PartsURL(client),
                                      MarshalPartsRequest(alert))>>
            /\ pc' = "inflight"
            /\ retResp' = Nil
            /\ retErr' = NoErr

\* CalculateParts up to httpClient.Do
CalculateParts(alert, cancelled) ==
    /\ NewCall("CalculateParts",
               [Audience |-> "", Alert |-> alert, Channel |-> ""], cancelled)
    /\ attempt' = 0
    /\ outcomes' = <<>>
    /\ waits' = <<>>
    /\ LET v == ValidateParts(alert)
           e == ConnectionError("failed to create request")
       IN  IF v # NoErr
           THEN /\ Return(Nil, v)
                /\ err' = NoErr
                /\ sent' = <<>>
                /\ errs' = <<>>
           ELSE IF NewRequestOK(PartsURL(client))
           THEN /\ sent' = <<BuildRequest(client, MethodPost, PartsURL(client),
                                          MarshalPartsRequest(alert))>>
                /\ pc' = "inflight"
                /\ err' = NoErr
                /\ errs' = <<>>
                /\ retResp' = Nil
                /\ retErr' = NoErr
           ELSE /\ Return(Nil, e)
                /\ err' = e
                /\ sent' = <<>>
                /\ errs' = <<e>>

\* CalculateParts sending again after a failure that SendAlert would retry
CalculatePartsResponseRetrying(o) ==
    /\ op = "CalculateParts"
    /\ pc = "inflight"
    /\ outcomes' = Append(outcomes, o)
    /\ LET d == HandleOutcome(o)
       IN  /\ errs' = Append(errs, d.err)
           /\ err' = d.err
           /\ IF d.err # NoErr /\ ~IsTerminal(d.err)
                 /\ attempt < client.maxRetries
              THEN /\ sent' = Append(sent, sent[1])
                   /\ attempt' = attempt + 1
                   /\ UNCHANGED <<pc, retResp, retErr>>
              ELSE /\ Return(d.result, d.err)
                   /\ UNCHANGED <<attempt, sent>>
    /\ UNCHANGED <<newCall, client, op, req, ctxDone, cancelledIn, earlier, waits>>

\* CalculateParts returning &resp together with the error
CalculatePartsResponsePartial(o) ==
    /\ op = "CalculateParts"
    /\ pc = "inflight"
    /\ outcomes' = Append(outcomes, o)
    /\ LET d == HandleOutcome(o)
       IN  /\ errs' = Append(errs, d.err)
           /\ err' = d.err
           /\ Return([nil |-> FALSE, MessageID |-> o.body.id], d.err)
    /\ UNCHANGED <<newCall, client, op, req, ctxDone, cancelledIn, earlier, attempt, sent, waits>>

\* httpClient.Do returns in CalculateParts
CalculatePartsResponse(o) ==
    /\ op = "CalculateParts"
    /\ pc = "inflight"
    /\ outcomes' = Append(outcomes, o)
    /\ LET d == HandleOutcome(o)
       IN  /\ errs' = Append(errs, d.err)
           /\ err' = d.err
           /\ Return(d.result, d.err)
    /\ UNCHANGED <<newCall, client, op, req, ctxDone, cancelledIn, earlier, attempt, sent, waits>>

\* the caller cancels the context while the call is in progress
Cancel ==
    /\ pc \in {"loop", "inflight", "backoff"}
    /\ ~ctxDone
    /\ ctxDone' = TRUE
    /\ cancelledIn' = pc
    /\ UNCHANGED <<newCall, client, op, req, earlier, pc, attempt, err, sent, outcomes, errs,
                   waits, retResp, retErr>>

Next ==
    \/ \E r \in AlertRequests, c \in BOOLEAN : SendAlert(r, c)
    \/ LoopHead
    \/ \E o \in Outcomes : SendAlertResponse(o)
    \/ BackoffElapsed
    \/ BackoffCancelled
    \/ \E a \in {"", "disk full"}, c \in BOOLEAN : CalculateParts(a, c)
    \/ \E o \in Outcomes : CalculatePartsResponse(o)
    \/ Cancel

Spec == Init /\ [][Next]_vars

-----------------------------------------------------------------------------
(* client.go: the constructors and the options *)

\* longest list of options given to NewClientWithOptions
MaxOpts == 2

\* an option is the name of its constructor and its argument, a string or
\* an integer (seconds for the timeouts)
WithBaseURL(url) == [name |-> "WithBaseURL", str |-> url, int |-> 0]

WithTimeout(timeout) == [name |-> "WithTimeout", str |-> "", int |-> timeout]

WithMaxRetries(maxRetries) ==
    [name |-> "WithMaxRetries", str |-> "", int |-> maxRetries]

\* WithHTTPClient(&http.Client{Timeout: timeout})
WithHTTPClient(timeout) ==
    [name |-> "WithHTTPClient", str |-> "", int |-> timeout]

WithAPIKey(apiKey) == [name |-> "WithAPIKey", str |-> apiKey, int |-> 0]

WithUserAgent(userAgent) ==
    [name |-> "WithUserAgent", str |-> userAgent, int |-> 0]

\* opt(client): what the closure of an option does to the client
ApplyOption(c, o) ==
    CASE o.name = "WithBaseURL" -> [c EXCEPT !.baseURL = o.str]
      [] o.name = "WithTimeout" ->
           [c EXCEPT !.timeout = o.int, !.httpClient.Timeout = o.int]
      [] o.name = "WithMaxRetries" -> [c EXCEPT !.maxRetries = o.int]
      [] o.name = "WithHTTPClient" ->
           [c EXCEPT !.httpClient = [Timeout |-> o.int]]
      [] o.name = "WithAPIKey" -> [c EXCEPT !.apiKey = o.str]
      [] o.name = "WithUserAgent" ->
           [c EXCEPT !.UserAgent =
                IF o.str = "" THEN DefaultUserAgent ELSE o.str]

\* for _, opt := range opts { opt(client) }
RECURSIVE ApplyOptions(_, _)
ApplyOptions(c, opts) ==
    IF opts = <<>> THEN c
    ELSE ApplyOptions(ApplyOption(c, Head(opts)), Tail(opts))

\* the client NewClientWithOptions starts from
DefaultClient ==
    [apiKey |-> "", baseURL |-> DefaultBaseURL, timeout |-> DefaultTimeout,
     maxRetries |-> DefaultMaxRetries,
     httpClient |-> [Timeout |-> DefaultTimeout],
     UserAgent |-> DefaultUserAgent]

\* the environment read before the key of the options
ResolveAPIKeyEnvFirst(apiKey, env) == IF env # "" THEN env ELSE apiKey

\* if client.apiKey == "" { client.apiKey = os.Getenv(EnvAPIKey) }
ResolveAPIKey(apiKey, env) == IF apiKey = "" THEN env ELSE apiKey

\* fmt.Errorf("api key is required ...")
APIKeyRequiredErr ==
    [kind |-> "construction", status |-> 0, text |-> "api key is required"]

\* the values of NOTIFOX_API_KEY
EnvValues == { "", "env-key" }

Options ==
    { WithAPIKey(""), WithAPIKey("key-1"), WithBaseURL("http://stub/alert"),
      WithTimeout(5), WithMaxRetries(-1), WithMaxRetries(1),
      WithHTTPClient(0), WithUserAgent(""), WithUserAgent("agent") }

OptionLists == UNION { [1..n -> Options] : n \in 0..MaxOpts }

\* what the server answers in the behaviours that begin with a constructor
NewOutcomes == { Response(200, OkBody), Response(401, PlainBody), TransportFail }

InitNew ==
    /\ newCall \in [ctor : {"none"}, env : EnvValues, opts : {<<>>},
                    err : {NoErr}]
    /\ client = Nil
    /\ op = "none"
    /\ req = [Audience |-> "", Alert |-> "", Channel |-> ""]
    /\ ctxDone = FALSE
    /\ cancelledIn = "never"
    /\ earlier = FALSE
    /\ pc = "new"
    /\ attempt = 0
    /\ err = NoErr
    /\ sent = <<>>
    /\ outcomes = <<>>
    /\ errs = <<>>
    /\ waits = <<>>
    /\ retResp = Nil
    /\ retErr = NoErr

\* the constructor returns (c, nil), or (nil, e)
Constructed(ctor, opts, c, e) ==
    /\ newCall' = [newCall EXCEPT !.ctor = ctor, !.opts = opts, !.err = e]
    /\ client' = c
    /\ pc' = IF e = NoErr THEN "idle" ELSE "failed"
    /\ UNCHANGED <<op, req, ctxDone, cancelledIn, earlier, attempt, err, sent,
                   outcomes, errs, waits, retResp, retErr>>

NewClient ==
    /\ pc = "new"
    /\ LET apiKey == newCall.env
       IN  IF apiKey = ""
           THEN Constructed("NewClient", <<>>, Nil, APIKeyRequiredErr)
           ELSE Constructed("NewClient", <<>>,
                            [DefaultClient EXCEPT !.apiKey = apiKey], NoErr)

NewClientWithOptions(opts) ==
    /\ pc = "new"
    /\ LET c == ApplyOptions(DefaultClient, opts)
           apiKey == ResolveAPIKey(c.apiKey, newCall.env)
       IN  IF apiKey = ""
           THEN Constructed("NewClientWithOptions", opts, Nil, APIKeyRequiredErr)
           ELSE Constructed("NewClientWithOptions", opts,
                            [c EXCEPT !.apiKey = apiKey], NoErr)

NextNew ==
    \/ NewClient
    \/ \E opts \in OptionLists : NewClientWithOptions(opts)
    \/ \E r \in AlertRequests, c \in BOOLEAN : SendAlert(r, c)
    \/ LoopHead
    \/ \E o \in NewOutcomes : SendAlertResponse(o)
    \/ BackoffElapsed
    \/ BackoffCancelled
    \/ \E a \in {"", "disk full"}, c \in BOOLEAN : CalculateParts(a, c)
    \/ \E o \in NewOutcomes : CalculatePartsResponse(o)
    \/ Cancel

SpecNew == InitNew /\ [][NextNew]_vars

-----------------------------------------------------------------------------
(* Vocabulary of the properties *)

\* the call's context was never cancelled
NeverCancelled == cancelledIn = "never"

\* the argument of SendAlert passes the documented validation
ValidAlertRequest ==
    /\ req.Audience # ""
    /\ req.Alert # ""
    /\ req.Channel \in {"", "sms", "email"}

Is5xx(o) == o.type = "response" /\ o.status >= 500 /\ o.status <= 599

\* a 2xx response whose body decodes into the result
Is2xxValid(o) ==
    o.type = "response" /\ o.status >= 200 /\ o.status <= 299 /\ o.body.object

\* an outcome the retry policy calls transient: 5xx or a connection failure
TransientOutcome(o) == Is5xx(o) \/ o.type \in {"transportFail", "readFail"}

-----------------------------------------------------------------------------
(* Properties *)

\* C1: in SendAlert an attempt answered with 401, 403 or 429 is the last
\* exchange of the call: the call has returned the Authentication (with the
\* status) or RateLimit error of that attempt and a nil response, and no
\* backoff was started after it, whatever the retry budget.
C1_AuthAndRateLimitTerminal ==
    op = "SendAlert" =>
        \A i \in 1..Len(outcomes) :
            LET o == outcomes[i] IN
            (o.type = "response" /\ o.status \in {401, 403, 429}) =>
                /\ i = Len(outcomes)
                /\ Len(sent) = i
                /\ pc = "done"
                /\ retResp = Nil
                /\ retErr = errs[Len(errs)]
                /\ retErr.kind =
                       (IF o.status = 429 THEN "RateLimit" ELSE "Authentication")
                /\ (o.status # 429 => retErr.status = o.status)
                /\ Len(waits) = i - 1

\* C1 witness: a server answering 401 saw one attempt under the largest budget
C1_Witness ==
    /\ op = "SendAlert"
    /\ client.maxRetries = MaxRetries
    /\ pc = "done"
    /\ Len(sent) = 1
    /\ outcomes = <<Response(401, PlainBody)>>
    /\ retErr.kind = "Authentication"

\* C2: in SendAlert an attempt that failed with an APIError of status in
\* [400,500) is the last one: the call has returned that APIError with that
\* status, whatever the retry budget.
C2_ClientErrorTerminal ==
    op = "SendAlert" =>
        \A i \in 1..Len(errs) :
            (errs[i].kind = "API" /\ errs[i].status >= 400 /\ errs[i].status < 500) =>
                /\ i = Len(errs)
                /\ Len(sent) = i
                /\ pc = "done"
                /\ retResp = Nil
                /\ retErr = errs[i]
                /\ retErr.status = outcomes[i].status

\* C2 witness: 400 with the error envelope, one attempt, largest budget
C2_Witness ==
    /\ op = "SendAlert"
    /\ client.maxRetries = MaxRetries
    /\ pc = "done"
    /\ Len(sent) = 1
    /\ outcomes = <<Response(400, EnvBody)>>
    /\ retErr = [kind |-> "API", status |-> 400,
                 text |-> "audience cannot be empty"]

\* C3: with a context never cancelled, while the server has answered all k
\* attempts so far with 5xx and k <= max-retries the call has not returned; and when the first k are
\* 5xx and the (k+1)-th is a 2xx with a decodable body, the call has returned
\* what that body decodes to, with a nil error, after exactly k+1 exchanges.
C3_SuccessAfterRetries ==
    (op = "SendAlert" /\ NeverCancelled /\ ValidAlertRequest) =>
        LET n == Len(outcomes) IN
        /\ (/\ Len(errs) = n
            /\ \A i \in 1..n : Is5xx(outcomes[i])
            /\ n <= client.maxRetries)
               => pc # "done"
        /\ (/\ n >= 1
            /\ \A i \in 1..(n - 1) : Is5xx(outcomes[i])
            /\ Is2xxValid(outcomes[n])
            /\ n - 1 <= client.maxRetries)
               => /\ pc = "done"
                  /\ retErr = NoErr
                  /\ retResp = [nil |-> FALSE, MessageID |-> outcomes[n].body.id]
                  /\ Len(sent) = n

\* C3 witness: 500, 500, 200 with max-retries >= 2 succeeded after 3 attempts
C3_Witness ==
    /\ op = "SendAlert"
    /\ NeverCancelled
    /\ client.maxRetries >= 2
    /\ pc = "done"
    /\ outcomes = <<Response(500, EnvBody), Response(500, EnvBody),
                    Response(200, OkBody)>>
    /\ Len(sent) = 3
    /\ retErr = NoErr
    /\ retResp = [nil |-> FALSE, MessageID |-> "m1"]

\* C4: with max-retries r >= 0 a SendAlert call performs at most r + 1
\* exchanges, and exactly r + 1 once it has returned when every attempt got a
\* transient failure from the server and the context was never cancelled.
C4_AttemptBudget ==
    (op = "SendAlert" /\ client.maxRetries >= 0) =>
        /\ Len(sent) <= client.maxRetries + 1
        /\ (/\ pc = "done"
            /\ NeverCancelled
            /\ ValidAlertRequest
            /\ Len(outcomes) = Len(errs)
            /\ \A i \in 1..Len(outcomes) : TransientOutcome(outcomes[i]))
               => Len(sent) = client.maxRetries + 1

\* C4 witness: the budget used up against a server that always fails
C4_Witness ==
    /\ op = "SendAlert"
    /\ client.maxRetries = MaxRetries
    /\ pc = "done"
    /\ NeverCancelled
    /\ Len(sent) = MaxRetries + 1
    /\ \A i \in 1..Len(outcomes) : TransientOutcome(outcomes[i])

\* C5: when a SendAlert call, never cancelled, has returned after
\* max-retries + 1 attempts that all failed, it returned the error of the
\* last attempt and a nil response.
C5_LastErrorReturned ==
    (/\ op = "SendAlert"
     /\ pc = "done"
     /\ NeverCancelled
     /\ Len(errs) >= 1
     /\ Len(errs) = client.maxRetries + 1
     /\ \A i \in 1..Len(errs) : errs[i] # NoErr)
        => /\ retErr = errs[Len(errs)]
           /\ retResp = Nil

\* C5 witness: the budget exhausted with a last error that differs from the
\* first one
C5_Witness ==
    /\ op = "SendAlert"
    /\ pc = "done"
    /\ NeverCancelled
    /\ Len(errs) = client.maxRetries + 1
    /\ Len(errs) >= 2
    /\ \A i \in 1..Len(outcomes) : TransientOutcome(outcomes[i])
    /\ errs[1] # errs[Len(errs)]
    /\ retErr = errs[Len(errs)]

\* C6: SendAlert with an empty audience or an empty message, and
\* CalculateParts with an empty message, have returned an error and a nil
\* response without a single doRequest call or transport invocation.
C6_EmptyFieldsRejected ==
    /\ (op = "SendAlert" /\ (req.Audience = "" \/ req.Alert = "")) =>
           /\ pc = "done"
           /\ retErr.kind = "validation"
           /\ retResp = Nil
           /\ Len(sent) = 0
           /\ Len(errs) = 0
    /\ (op = "CalculateParts" /\ req.Alert = "") =>
           /\ pc = "done"
           /\ retErr.kind = "validation"
           /\ retResp = Nil
           /\ Len(sent) = 0
           /\ Len(errs) = 0

\* C6 witness: a request with an audience and no message was rejected
C6_Witness ==
    /\ op = "SendAlert"
    /\ req.Audience # ""
    /\ req.Alert = ""
    /\ pc = "done"
    /\ retErr.kind = "validation"
    /\ Len(sent) = 0

\* C7: a channel outside {"", "sms", "email"} is rejected by the validation
\* with no transport invocation; a channel inside it, with an audience and a
\* message, passes the validation and the call that has returned made at
\* least one attempt.
C7_ChannelValidation ==
    op = "SendAlert" =>
        /\ req.Channel \notin {"", "sms", "email"} =>
               /\ pc = "done"
               /\ retErr.kind = "validation"
               /\ Len(sent) = 0
        /\ ValidAlertRequest =>
               /\ retErr.kind # "validation"
               /\ pc = "done" => Len(errs) >= 1

\* C8: once the context was cancelled during a backoff, the call is still in
\* that select or has returned ctx.Err() with a nil response, and no
\* doRequest call was made since the backoff began.
C8_CancelDuringBackoff ==
    (op = "SendAlert" /\ cancelledIn = "backoff") =>
        /\ pc \in {"backoff", "done"}
        /\ pc = "done" => (retErr = CtxErr /\ retResp = Nil)
        /\ Len(errs) = Len(waits)
        /\ Len(sent) <= Len(waits)

\* C8 witness: a call cancelled in its backoff returned the cancellation
C8_Witness ==
    /\ op = "SendAlert"
    /\ cancelledIn = "backoff"
    /\ pc = "done"
    /\ retErr = CtxErr
    /\ Len(sent) >= 1
    /\ err.kind \in {"API", "Connection"}

\* C9: no request of CalculateParts has an Authorization header or carries
\* the API key in any header, for any base URL and any key.
C9_PartsWithoutAuthorization ==
    op = "CalculateParts" =>
        \A i \in 1..Len(sent) :
            /\ "Authorization" \notin DOMAIN sent[i].headers
            /\ \A h \in DOMAIN sent[i].headers :
                   sent[i].headers[h] \notin
                       {client.apiKey, "Bearer " \o client.apiKey}

\* C9 witness: a parts request sent under a base URL that is not the default
C9_Witness ==
    /\ op = "CalculateParts"
    /\ client.baseURL # DefaultBaseURL
    /\ Len(sent) = 1
    /\ sent[1].url = client.baseURL \o "/alert/parts"

\* C10: every request of SendAlert, first attempt or retry, is a POST to
\* {baseURL}/alert with Authorization = "Bearer " + the client's API key.
C10_AlertRequestsAuthorized ==
    op = "SendAlert" =>
        \A i \in 1..Len(sent) :
            /\ sent[i].method = "POST"
            /\ sent[i].url = client.baseURL \o "/alert"
            /\ "Authorization" \in DOMAIN sent[i].headers
            /\ sent[i].headers.Authorization = "Bearer " \o client.apiKey

\* C10 witness: a retry sent under a base URL that is not the default
C10_Witness ==
    /\ op = "SendAlert"
    /\ client.baseURL # DefaultBaseURL
    /\ Len(sent) >= 2
    /\ sent[2].headers.Authorization = "Bearer " \o client.apiKey

\* C11: CalculateParts with a non-empty message makes exactly one attempt,
\* hence at most one exchange, whatever the transport answers and whatever
\* max-retries: one answer ends the call, and no backoff is ever started.
C11_PartsSingleAttempt ==
    (op = "CalculateParts" /\ req.Alert # "") =>
        /\ Len(sent) <= 1
        /\ Len(outcomes) <= 1
        /\ Len(waits) = 0
        /\ pc \in {"inflight", "done"}
        /\ pc = "inflight" => (Len(sent) = 1 /\ Len(outcomes) = 0)
        /\ pc = "done" => (Len(errs) = 1 /\ Len(outcomes) = Len(sent))

\* C11 witness: one exchange answered 503 under the largest budget, call over
C11_Witness ==
    /\ op = "CalculateParts"
    /\ client.maxRetries = MaxRetries
    /\ pc = "done"
    /\ outcomes = <<Response(503, PlainBody)>>
    /\ Len(sent) = 1
    /\ retErr.kind = "API"

\* the text the classified error of a non-2xx response carries, from the
\* status and the body of the response
ExpectedText(o) ==
    IF o.status = 401 THEN o.body.raw
    ELSE IF o.body.object /\ o.body.error # "" THEN o.body.error
    ELSE o.body.raw

\* a response with a status outside 2xx
IsNon2xx(o) == o.type = "response" /\ ~(o.status >= 200 /\ o.status <= 299)

\* C12: the error of an attempt answered with a non-2xx status is
\* Authentication with the status for 401 and 403, InsufficientBalance for
\* 402, RateLimit for 429 and APIError with the status otherwise, and it
\* carries the response text.
C12_ClassifierVariants ==
    \A i \in 1..Len(outcomes) :
        LET o == outcomes[i]
            e == errs[i]
        IN  IsNon2xx(o) =>
                /\ e.kind = (IF o.status \in {401, 403} THEN "Authentication"
                             ELSE IF o.status = 402 THEN "InsufficientBalance"
                             ELSE IF o.status = 429 THEN "RateLimit"
                             ELSE "API")
                /\ e.kind \in {"Authentication", "API"} => e.status = o.status
                /\ e.text \in {o.body.raw, o.body.error}
                /\ e.text # ""

\* C12 witness: a 403 classified as Authentication carrying 403
C12_Witness ==
    /\ Len(outcomes) = 1
    /\ outcomes[1] = Response(403, EnvBody)
    /\ errs[1] = [kind |-> "Authentication", status |-> 403,
                  text |-> "audience cannot be empty"]

\* C13: the response text of the error of a non-2xx response is the raw body
\* for 401, else the "error" member of the envelope when the body is one and
\* the member is non-empty, else the raw body.
C13_ResponseTextResolution ==
    \A i \in 1..Len(outcomes) :
        IsNon2xx(outcomes[i]) => errs[i].text = ExpectedText(outcomes[i])

\* C13 witness: a 401 whose body is an envelope keeps the raw body
C13_Witness ==
    /\ Len(outcomes) = 1
    /\ outcomes[1] = Response(401, EnvBody)
    /\ errs[1].text = "{\"error\":\"audience cannot be empty\"}"

\* C14: a 2xx response whose body does not decode makes the exchange fail
\* with an APIError carrying that status and the raw body; when the call ends
\* on that exchange (no backoff was started after it) it returns this error
\* and a nil response.
C14_DecodeFailureIsAPIError ==
    \A i \in 1..Len(outcomes) :
        LET o == outcomes[i] IN
        (o.type = "response" /\ o.status >= 200 /\ o.status <= 299
           /\ ~o.body.object) =>
            /\ errs[i] = [kind |-> "API", status |-> o.status,
                          text |-> o.body.raw]
            /\ (pc = "done" /\ i = Len(outcomes) /\ Len(waits) < i) =>
                   (retErr = errs[i] /\ retResp = Nil)

\* C14 witness: CalculateParts answered 200 with a body that is not JSON
C14_Witness ==
    /\ op = "CalculateParts"
    /\ pc = "done"
    /\ outcomes = <<Response(200, PlainBody)>>
    /\ retErr = [kind |-> "API", status |-> 200, text |-> "Unauthorized"]
    /\ retResp = Nil

\* C15: an exchange without a response, or whose body cannot be read, fails
\* with a ConnectionError; in SendAlert it counts as an attempt, and while
\* attempts remain and the context is not cancelled the call does not return
\* on it.
C15_ConnectionFailureRetried ==
    \A i \in 1..Len(outcomes) :
        outcomes[i].type \in {"transportFail", "readFail"} =>
            /\ errs[i].kind = "Connection"
            /\ errs[i].text = (IF outcomes[i].type = "transportFail"
                               THEN "request failed"
                               ELSE "failed to read response")
            /\ op = "SendAlert" =>
                   /\ i <= client.maxRetries + 1
                   /\ (i = Len(outcomes) /\ i <= client.maxRetries /\ ~ctxDone)
                          => (pc \in {"backoff", "loop", "inflight"}
                              /\ Len(waits) = i)
                   /\ (i < Len(outcomes)) => Len(sent) > i

\* C15 witness: a transport failure followed by a second attempt
C15_Witness ==
    /\ op = "SendAlert"
    /\ Len(outcomes) = 2
    /\ outcomes[1] = TransportFail
    /\ errs[1].kind = "Connection"
    /\ Len(sent) = 2

\* the value of the last WithAPIKey option of a list, "" when there is none
LastAPIKeyOption(opts) ==
    LET idx == {i \in 1..Len(opts) : opts[i].name = "WithAPIKey"}
    IN  IF idx = {} THEN ""
        ELSE opts[CHOOSE i \in idx : \A j \in idx : j <= i].str

\* the credential a constructor call resolves to
ExpectedAPIKey ==
    IF newCall.ctor = "NewClientWithOptions"
         /\ LastAPIKeyOption(newCall.opts) # ""
    THEN LastAPIKeyOption(newCall.opts)
    ELSE newCall.env

\* C17: a constructor resolves the key to the WithAPIKey value when it is
\* non-empty, else to NOTIFOX_API_KEY (NewClient: the environment only); with
\* no key it returns an error and a nil client.  Every client has a
\* non-empty key, and no request is sent without a client or with an empty
\* credential.
C17_CredentialResolution ==
    /\ newCall.ctor = "none" => (pc = "new" /\ client = Nil /\ Len(sent) = 0)
    /\ newCall.ctor # "none" =>
           IF ExpectedAPIKey = ""
           THEN /\ client = Nil
                /\ newCall.err # NoErr
                /\ pc = "failed"
           ELSE /\ client # Nil
                /\ client.apiKey = ExpectedAPIKey
                /\ newCall.err = NoErr
    /\ client # Nil => client.apiKey # ""
    /\ \A i \in 1..Len(sent) :
           /\ client # Nil
           /\ "Authorization" \in DOMAIN sent[i].headers =>
                  sent[i].headers.Authorization \notin {"", "Bearer "}

\* C17 witness: the key of the option wins over the environment, and a
\* request was sent with it
C17_Witness ==
    /\ newCall.ctor = "NewClientWithOptions"
    /\ newCall.env = "env-key"
    /\ LastAPIKeyOption(newCall.opts) = "key-1"
    /\ client # Nil
    /\ client.apiKey = "key-1"
    /\ op = "SendAlert"
    /\ Len(sent) >= 1
    /\ sent[1].headers.Authorization = "Bearer key-1"

\* C18: whenever SendAlert or CalculateParts has returned a non-nil error,
\* the response it returned is nil.
C18_NoResponseWithError ==
    (op \in {"SendAlert", "CalculateParts"} /\ retErr # NoErr) =>
        (pc = "done" /\ retResp = Nil)

\* C18 witness: CalculateParts answered 500 with a JSON body returned the
\* error and no response
C18_Witness ==
    /\ op = "CalculateParts"
    /\ pc = "done"
    /\ outcomes = <<Response(500, EnvBody)>>
    /\ retErr.kind = "API"
    /\ retResp = Nil

C21_CallsLeaveNoTrace ==
    [][ pc # "new" =>
          /\ client' = client
          /\ (pc = "done" /\ op' = "SendAlert") =>
                /\ attempt' = 0
                /\ err' = NoErr
                /\ sent' = <<>>
                /\ outcomes' = <<>>
                /\ errs' = <<>>
                /\ waits' = <<>>
                /\ retResp' = Nil
                /\ retErr' = ValidateAlertRequest(req')
                /\ pc' = IF retErr' = NoErr THEN "loop" ELSE "done" ]_vars

\* a SendAlert call that came after another call has used its whole budget
C21_Witness ==
    /\ earlier
    /\ op = "SendAlert"
    /\ pc = "done"
    /\ client.maxRetries >= 1
    /\ Len(sent) = client.maxRetries + 1
    /\ retErr.kind = "API"

\* C22: the body SendAlert posts has no channel field, or one holding "sms"
\* or "email": a request whose channel is unset sends no channel field
\* holding the empty string.
C22_ChannelOmittedOrNamed ==
    op = "SendAlert" =>
        \A i \in 1..Len(sent) :
            \/ "channel" \notin DOMAIN sent[i].body
            \/ sent[i].body.channel \in {SMS, Email}

\* the timeout of the last WithTimeout of the options, 0 when there is none
LastTimeoutOption(opts) ==
    LET S == { i \in 1..Len(opts) : opts[i].name = "WithTimeout" }
    IN  IF S = {} THEN 0
        ELSE opts[CHOOSE i \in S : \A j \in S : j <= i].int

\* C23: the client NewClientWithOptions returns has the timeout of its
\* WithTimeout option, in its timeout field and in its HTTP client, wherever
\* the option stands in the list (before or after WithHTTPClient); without
\* the option both are the default of 30 s.
C23_TimeoutReachesHTTPClient ==
    (newCall.ctor = "NewClientWithOptions" /\ client # Nil) =>
        LET t == IF LastTimeoutOption(newCall.opts) # 0
                 THEN LastTimeoutOption(newCall.opts)
                 ELSE DefaultTimeout
        IN  /\ client.timeout = t
            /\ client.httpClient.Timeout = t

\* C24 as stated: whenever SendAlert returns an error after at least one
\* failed attempt, the error is that of its most recent failed attempt.
C24_NeverHidesClassifiedError ==
    (/\ op = "SendAlert"
     /\ pc = "done"
     /\ retErr # NoErr
     /\ Len(errs) >= 1)
        => retErr = errs[Len(errs)]

\* C24: whenever SendAlert returns an error after at least one failed
\* attempt, the error is that of its most recent failed attempt (variant,
\* status and text), except when the call leaves through the ctx.Done() case
\* of a backoff, which follows each failure the call has waited after: it
\* then returns ctx.Err().
C24_LastErrorUnlessCancelledInBackoff ==
    (/\ op = "SendAlert"
     /\ pc = "done"
     /\ retErr # NoErr
     /\ Len(errs) >= 1)
        => retErr = IF Len(waits) = Len(errs)
                    THEN CtxErr
                    ELSE errs[Len(errs)]

\* C24 witness: a terminal error returned after a retried failure of another
\* variant
C24_Witness ==
    /\ op = "SendAlert"
    /\ pc = "done"
    /\ Len(errs) >= 2
    /\ errs[1].kind \in {"API", "Connection"}
    /\ errs[Len(errs)].kind = "Authentication"
    /\ retErr = errs[Len(errs)]
    /\ Len(waits) = Len(errs) - 1

\* the context was cancelled at a suspension point of the SendAlert call in
\* progress: during httpClient.Do or during the select of a backoff
CancelledWhileSuspended ==
    op = "SendAlert" /\ cancelledIn \in {"inflight", "backoff"}

\* C25 as stated: a SendAlert call cancelled during an attempt's network I/O
\* or during a backoff returns an error, and begins no attempt after the
\* cancellation.
C25_CancelAbortsWithError ==
    /\ [](CancelledWhileSuspended /\ pc = "done" => retErr # NoErr)
    /\ [][(CancelledWhileSuspended /\ pc # "done") => sent' = sent]_vars

\* C25: a SendAlert call cancelled during an attempt's network I/O or during
\* a backoff begins no attempt after the cancellation; cancelled during a
\* backoff it returns ctx.Err(); cancelled during the network I/O it returns
\* what the exchange in flight gives: an error, or the response when the
\* transport still delivers a 2xx answer that decodes.
C25_NoAttemptAfterCancel ==
    /\ [](CancelledWhileSuspended /\ pc = "done" =>
            \/ retErr # NoErr /\ retResp = Nil
            \/ /\ cancelledIn = "inflight"
               /\ retErr = NoErr
               /\ Is2xxValid(outcomes[Len(outcomes)])
               /\ retResp = HandleOutcome(outcomes[Len(outcomes)]).result)
    /\ [][(CancelledWhileSuspended /\ pc # "done") => sent' = sent]_vars

\* C25 witness: cancelled while the first attempt was in flight, the call
\* spent no further attempt of its budget and returned the cancellation
C25_Witness ==
    /\ op = "SendAlert"
    /\ cancelledIn = "inflight"
    /\ pc = "done"
    /\ client.maxRetries >= 1
    /\ Len(sent) = 1
    /\ TransientOutcome(outcomes[1])
    /\ retErr = CtxErr

\* C26: in SendAlert an attempt answered with a status of [400, 500), 402
\* included, is the last attempt of the call, whatever the retry budget.
C26_NoRetryOnAny4xx ==
    op = "SendAlert" =>
        \A i \in 1..Len(outcomes) :
            (/\ outcomes[i].type = "response"
             /\ outcomes[i].status >= 400
             /\ outcomes[i].status < 500)
                => /\ i = Len(outcomes)
                   /\ Len(sent) = i
                   /\ pc \notin {"inflight", "backoff"}

\* C27: once an attempt of a SendAlert call was answered with a 2xx status,
\* the call sends no further POST: at most one attempt receives a 2xx.
C27_NoPostAfter2xx ==
    op = "SendAlert" =>
        \A i \in 1..Len(outcomes) :
            (/\ outcomes[i].type = "response"
             /\ outcomes[i].status >= 200
             /\ outcomes[i].status <= 299)
                => Len(sent) = i

\* C28: for every client NewClientWithOptions constructs, whatever integer
\* WithMaxRetries was given, a SendAlert call with a valid request returns
\* exactly one of a response and an error, after at least one attempt.
C28_ResponseXorErrorAfterAnAttempt ==
    (/\ newCall.ctor = "NewClientWithOptions"
     /\ op = "SendAlert"
     /\ pc = "done"
     /\ ValidAlertRequest)
        => /\ (retResp # Nil) # (retErr # NoErr)
           /\ Len(errs) >= 1

\* C29: every attempt of a SendAlert call sends the request of the first one:
\* POST to the alert URL, the audience, message and channel of the caller's
\* request as body, and the Content-Type, User-Agent and Authorization of
\* the client.
C29_SameRequestEveryAttempt ==
    op = "SendAlert" =>
        \A i \in 1..Len(sent) :
            /\ sent[i] = sent[1]
            /\ sent[i].method = "POST"
            /\ sent[i].url = client.baseURL \o "/alert"
            /\ sent[i].body = [audience |-> req.Audience, alert |-> req.Alert,
                               channel |-> req.Channel]
            /\ DOMAIN sent[i].headers =
                   {"ContentType", "UserAgent", "Authorization"}
            /\ sent[i].headers.ContentType = "application/json"
            /\ sent[i].headers.UserAgent = client.UserAgent
            /\ sent[i].headers.Authorization = "Bearer " \o client.apiKey

\* C29 witness: three attempts answered differently carried one request
C29_Witness ==
    /\ op = "SendAlert"
    /\ Len(sent) = 3
    /\ Len(outcomes) = 3
    /\ outcomes[1] # outcomes[2]
    /\ sent[3] = sent[1]
    /\ sent[3].body.alert = "disk full"

\* the next step of the SendAlert call in progress: the goroutine runs on
\* from the head of the loop, the exchange in flight completes with a
\* response or a failure (httpClient.Do and io.ReadAll return), the select
\* of a backoff is woken by its timer or by ctx.Done()
SendAlertStep ==
    \/ LoopHead
    \/ \E o \in Outcomes : SendAlertResponse(o)
    \/ BackoffElapsed
    \/ BackoffCancelled

\* What the code's scheduling gives: a call that can take a step takes one.
Fairness == WF_vars(SendAlertStep)

\* the calls of one client per base URL and max-retries: the key, which no
\* step of a call branches on, is fixed
InitLive == Init /\ client.apiKey = "key-1"

SpecLive == InitLive /\ [][Next]_vars /\ Fairness

\* C30: every SendAlert call in progress eventually returns, whatever the
\* outcomes of its exchanges and whatever max-retries is.
C30_SendAlertReturns ==
    (op = "SendAlert" /\ pc \in {"loop", "inflight", "backoff"}) ~> (pc = "done")

\* C30 witness: a call with the largest budget is waiting in its last backoff
C30_Witness ==
    /\ op = "SendAlert"
    /\ pc = "backoff"
    /\ client.maxRetries = MaxRetries
    /\ Len(waits) = MaxRetries

=============================================================================
